---- MODULE Spec2Model ----
(***************************************************************************)
(* Packed ABI codec of abigo: EncodePacked (src/encode_packed.go) and      *)
(* DecodePacked (src/unnamed/part_000, the decoder).                       *)
(*                                                                         *)
(* Integers wider than the model checker's native integers (uint64,        *)
(* int256, ...) are kept as math/big keeps them: a sign and a big-endian   *)
(* magnitude of bytes without leading zeros.                               *)
(***************************************************************************)
EXTENDS Integers, Sequences, FiniteSets, TLC

VARIABLES pc, t, v, input, enc, dec, top

vars == <<pc, t, v, input, enc, dec, top>>

(***************************************************************************)
(* Byte strings and magnitudes                                             *)
(***************************************************************************)

Zeros(n) == [i \in 1..n |-> 0]

MinOf(S) == CHOOSE x \in S : \A y \in S : x <= y

MaxOf(a, b) == IF a >= b THEN a ELSE b

\* big.Int keeps no leading zero bytes in its magnitude
StripZeros(bs) ==
    LET nz == {i \in 1..Len(bs) : bs[i] # 0}
    IN  IF nz = {} THEN <<>> ELSE SubSeq(bs, MinOf(nz), Len(bs))

\* the byte of magnitude a at position k counted from the least significant end
Digit(a, k) == IF k <= Len(a) THEN a[Len(a) + 1 - k] ELSE 0

AddMag(a, b) ==
    LET n == MaxOf(Len(a), Len(b)) + 1
        carry[k \in 0..n] ==
            IF k = 0 THEN 0 ELSE (Digit(a, k) + Digit(b, k) + carry[k - 1]) \div 256
    IN  StripZeros([i \in 1..n |->
            (Digit(a, n + 1 - i) + Digit(b, n + 1 - i) + carry[n - i]) % 256])

\* a - b for magnitudes with a >= b
SubMag(a, b) ==
    LET n == Len(a)
        borrow[k \in 0..n] ==
            IF k = 0 THEN 0
            ELSE IF Digit(a, k) - Digit(b, k) - borrow[k - 1] < 0 THEN 1 ELSE 0
    IN  StripZeros([i \in 1..n |->
            (Digit(a, n + 1 - i) - Digit(b, n + 1 - i) - borrow[n - i] + 256) % 256])

\* -1, 0, 1 as a is below, equal to, above b (both without leading zeros)
CmpMag(a, b) ==
    IF Len(a) # Len(b) THEN (IF Len(a) < Len(b) THEN -1 ELSE 1)
    ELSE LET df == {i \in 1..Len(a) : a[i] # b[i]}
         IN  IF df = {} THEN 0
             ELSE IF a[MinOf(df)] < b[MinOf(df)] THEN -1 ELSE 1

\* a * m + d for a small multiplier m and addend d (one digit of SetString)
MulAddSmall(a, m, d) ==
    LET n == Len(a) + 1
        carry[k \in 0..n] ==
            IF k = 0 THEN d ELSE (Digit(a, k) * m + carry[k - 1]) \div 256
    IN  StripZeros([i \in 1..n |->
            (Digit(a, n + 1 - i) * m + carry[n - i]) % 256])

Pow2(i) == 2 ^ i

Bit(a, i) == (a \div Pow2(i)) % 2

ByteAnd(a, b) ==
    Bit(a, 0) * Bit(b, 0) + 2 * Bit(a, 1) * Bit(b, 1) + 4 * Bit(a, 2) * Bit(b, 2)
    + 8 * Bit(a, 3) * Bit(b, 3) + 16 * Bit(a, 4) * Bit(b, 4)
    + 32 * Bit(a, 5) * Bit(b, 5) + 64 * Bit(a, 6) * Bit(b, 6)
    + 128 * Bit(a, 7) * Bit(b, 7)

\* a AND b on magnitudes
MagAnd(a, b) ==
    LET n == MaxOf(Len(a), Len(b))
    IN  StripZeros([i \in 1..n |-> ByteAnd(Digit(a, n + 1 - i), Digit(b, n + 1 - i))])

\* a AND NOT b on magnitudes
MagAndNot(a, b) ==
    LET n == Len(a)
    IN  StripZeros([i \in 1..n |->
            ByteAnd(Digit(a, n + 1 - i), 255 - Digit(b, n + 1 - i))])

\* number of bits of a magnitude
BitsOfByte(b) == Cardinality({i \in 0..7 : b >= Pow2(i)})

MagBitLen(a) == IF a = <<>> THEN 0 ELSE 8 * (Len(a) - 1) + BitsOfByte(a[1])

(***************************************************************************)
(* math/big integers: [neg, mag]                                           *)
(***************************************************************************)

Big(neg, mag) == [neg |-> neg /\ StripZeros(mag) # <<>>, mag |-> StripZeros(mag)]

BigZero == Big(FALSE, <<>>)

BigOne == Big(FALSE, <<1>>)

BigSign(x) == IF x.mag = <<>> THEN 0 ELSE IF x.neg THEN -1 ELSE 1

BigBitLen(x) == MagBitLen(x.mag)

BigNeg(x) == Big(~x.neg, x.mag)

BigAdd(x, y) ==
    IF x.neg = y.neg THEN Big(x.neg, AddMag(x.mag, y.mag))
    ELSE IF CmpMag(x.mag, y.mag) >= 0 THEN Big(x.neg, SubMag(x.mag, y.mag))
    ELSE Big(y.neg, SubMag(y.mag, x.mag))

BigSub(x, y) == BigAdd(x, BigNeg(y))

BigCmp(x, y) ==
    IF BigSign(x) # BigSign(y) THEN (IF BigSign(x) < BigSign(y) THEN -1 ELSE 1)
    ELSE IF x.neg THEN CmpMag(y.mag, x.mag) ELSE CmpMag(x.mag, y.mag)

\* 1 << size
BigLsh1(size) == Big(FALSE, <<Pow2(size % 8)>> \o Zeros(size \div 8))

\* x AND y for y >= 0, in two's complement as math/big defines it:
\* for x < 0 it is y AND NOT (|x| - 1)
BigAnd(x, y) ==
    IF ~x.neg THEN Big(FALSE, MagAnd(x.mag, y.mag))
    ELSE Big(FALSE, MagAndNot(y.mag, SubMag(x.mag, <<1>>)))

BigBytes(x) == x.mag

BigSetBytes(b) == Big(FALSE, b)

(***************************************************************************)
(* Type descriptors: Kind(), Size(), Elem(), TupleElems(), GoType()        *)
(***************************************************************************)

NoElem == <<>>

Type(kind, size, elem, tuple) ==
    [kind |-> kind, size |-> size, elem |-> elem, tuple |-> tuple]

TBool == Type("Bool", 0, NoElem, <<>>)

TString == Type("String", 0, NoElem, <<>>)

TBytes == Type("Bytes", 0, NoElem, <<>>)

TAddress == Type("Address", 20, NoElem, <<>>)

TFunction == Type("Function", 24, NoElem, <<>>)

TFixedBytes(n) == Type("FixedBytes", n, NoElem, <<>>)

TInt(w) == Type("Int", w, NoElem, <<>>)

TUInt(w) == Type("UInt", w, NoElem, <<>>)

TArray(e, n) == Type("Array", n, <<e>>, <<>>)

TSlice(e) == Type("Slice", 0, <<e>>, <<>>)

TupleElem(name, e) == [Name |-> name, Elem |-> e]

TTuple(elems) == Type("Tuple", 0, NoElem, elems)

\* a descriptor of a kind the codec has no rule for
TUnsupported == Type("Unsupported", 0, NoElem, <<>>)

Kind(ty) == ty.kind

Size(ty) == ty.size

Elem(ty) == ty.elem[1]

TupleElems(ty) == ty.tuple

\* reflect kind of the native representation of an Int/UInt descriptor
GoTypeKind(ty) ==
    IF ty.size \in {8, 16, 32, 64}
    THEN (IF ty.kind = "UInt" THEN "Uint" ELSE "Int")
    ELSE "Ptr"

\* strconv.Itoa
Itoa(i) == ToString(i)

(***************************************************************************)
(* Shared helpers of the package                                           *)
(***************************************************************************)

leftPad(b, size) ==
    IF Len(b) = size THEN b
    ELSE IF Len(b) > size THEN SubSeq(b, Len(b) - size + 1, Len(b))
    ELSE Zeros(size - Len(b)) \o b

\* the declared length is reached by zero bytes after b
rightPad(b, size) ==
    IF Len(b) >= size THEN b ELSE b \o Zeros(size - Len(b))

maxUint256 == Big(FALSE, [i \in 1..32 |-> 255])

maxInt256 == Big(FALSE, [i \in 1..32 |-> IF i = 1 THEN 127 ELSE 255])

HexDigits ==
    <<"0", "1", "2", "3", "4", "5", "6", "7", "8", "9", "a", "b", "c", "d", "e", "f">>

IsDigit(c, base) == \E i \in 1..base : HexDigits[i] = c

DigitVal(c) == (CHOOSE i \in 1..16 : HexDigits[i] = c) - 1

\* the magnitude written by hex digits: two digits a byte, from the right
HexMag(ds) ==
    LET e == IF Len(ds) % 2 = 0 THEN ds ELSE <<"0">> \o ds
    IN  StripZeros([i \in 1..(Len(e) \div 2) |->
            16 * DigitVal(e[2 * i - 1]) + DigitVal(e[2 * i])])

RECURSIVE DecMag(_)
DecMag(ds) ==
    IF ds = <<>> THEN <<>>
    ELSE MulAddSmall(DecMag(SubSeq(ds, 1, Len(ds) - 1)), 10, DigitVal(ds[Len(ds)]))

MagOfDigits(ds, base) == IF base = 16 THEN HexMag(ds) ELSE DecMag(ds)

\* big.Int.SetString(s, base) for base 10 or 16: an optional sign, then digits
SetString(s, base) ==
    LET signed == s # <<>> /\ s[1] \in {"-", "+"}
        ds == IF signed THEN Tail(s) ELSE s
    IN  IF ds # <<>> /\ \A i \in 1..Len(ds) : IsDigit(ds[i], base)
        THEN [ok |-> TRUE, num |-> Big(signed /\ s[1] = "-", MagOfDigits(ds, base))]
        ELSE [ok |-> FALSE, num |-> BigZero]

\* hex text to bytes, with an optional 0x prefix
decodeHex(s) ==
    LET ds == IF Len(s) >= 2 /\ s[1] = "0" /\ s[2] = "x" THEN SubSeq(s, 3, Len(s)) ELSE s
    IN  IF Len(ds) % 2 = 0 /\ \A i \in 1..Len(ds) : IsDigit(ds[i], 16)
        THEN [ok |-> TRUE,
              bytes |-> [i \in 1..(Len(ds) \div 2) |->
                            16 * DigitVal(ds[2 * i - 1]) + DigitVal(ds[2 * i])]]
        ELSE [ok |-> FALSE, bytes |-> <<>>]

\* Address.UnmarshalText: 0x and forty hex digits
UnmarshalText(s) ==
    IF Len(s) = 42 /\ s[1] = "0" /\ s[2] = "x" /\ decodeHex(s).ok
    THEN decodeHex(s)
    ELSE [ok |-> FALSE, bytes |-> <<>>]

(***************************************************************************)
(* Input values, as reflect sees them                                      *)
(***************************************************************************)

VUint(mag) == [rk |-> "Uint", num |-> Big(FALSE, mag)]

VInt(neg, mag) == [rk |-> "Int", num |-> Big(neg, mag)]

\* a float64 whose integral part is num; frac says a fraction follows it
VFloat(neg, mag, frac) == [rk |-> "Float64", num |-> Big(neg, mag), frac |-> frac]

VBigInt(neg, mag) == [rk |-> "Ptr", isBig |-> TRUE, num |-> Big(neg, mag)]

VPtr(x) == [rk |-> "Ptr", isBig |-> FALSE, to |-> x]

VString(s) == [rk |-> "String", str |-> s]

VBool(b) == [rk |-> "Bool", b |-> b]

\* []byte and [N]byte
VBytes(bs) == [rk |-> "Slice", bytes |-> bs]

VByteArray(bs) == [rk |-> "Array", bytes |-> bs]

\* []interface{} and [N]interface{}
VSlice(xs) == [rk |-> "Slice", elems |-> xs]

VArray(xs) == [rk |-> "Array", elems |-> xs]

VMap(m) == [rk |-> "Map", m |-> m]

VStruct(m) == [rk |-> "Struct", m |-> m]

IsByteSeq(x) == "bytes" \in DOMAIN x

ValLen(x) ==
    IF x.rk = "Map" THEN Cardinality(DOMAIN x.m)
    ELSE IF IsByteSeq(x) THEN Len(x.bytes) ELSE Len(x.elems)

ValIndex(x, i) == IF IsByteSeq(x) THEN VUint(<<x.bytes[i]>>) ELSE x.elems[i]

\* int64(v.Float()): the fraction is dropped
FloatToInt64(x) == [rk |-> "Int", num |-> x.num]

convertArrayToBytes(x) == VBytes(x.bytes)

mapFromStruct(x) == VMap(x.m)

EncOk(bytes) == [st |-> "ok", bytes |-> bytes]

EncErr == [st |-> "err", bytes |-> <<>>]

EncPanic == [st |-> "panic", bytes |-> <<>>]

(***************************************************************************)
(* Encoder (src/encode_packed.go)                                          *)
(***************************************************************************)

\* the first result of rs that is not ok, or the concatenation of them all
RECURSIVE ConcatAll(_)
ConcatAll(rs) ==
    IF rs = <<>> THEN EncOk(<<>>)
    ELSE IF Head(rs).st # "ok" THEN Head(rs)
    ELSE LET rest == ConcatAll(Tail(rs))
         IN  IF rest.st # "ok" THEN rest ELSE EncOk(Head(rs).bytes \o rest.bytes)

toUSize(n, size) ==
    LET tt == BigLsh1(size)
        ttm1 == BigSub(tt, BigOne)
        b == IF BigSign(n) < 0 \/ BigBitLen(n) > size THEN BigAnd(n, ttm1) ELSE n
    IN  leftPad(BigBytes(b), size \div 8)

RECURSIVE encodeNumPacked(_, _)
encodeNumPacked(x, ty) ==
    CASE x.rk = "Uint" -> EncOk(toUSize(x.num, Size(ty)))
      [] x.rk = "Int" -> EncOk(toUSize(x.num, Size(ty)))
      [] x.rk = "Ptr" ->
            IF ~x.isBig THEN EncErr ELSE EncOk(toUSize(x.num, 256))
      [] x.rk = "Float64" -> encodeNumPacked(FloatToInt64(x), ty)
      [] x.rk = "String" ->
            IF SetString(x.str, 10).ok
            THEN encodeNumPacked([rk |-> "Ptr", isBig |-> TRUE,
                                  num |-> SetString(x.str, 10).num], ty)
            ELSE IF Len(x.str) < 2 THEN EncPanic   \* v.String()[2:] out of range
            ELSE IF SetString(SubSeq(x.str, 3, Len(x.str)), 16).ok
            THEN encodeNumPacked([rk |-> "Ptr", isBig |-> TRUE,
                     num |-> SetString(SubSeq(x.str, 3, Len(x.str)), 16).num], ty)
            ELSE EncErr
      [] OTHER -> EncErr

encodeBoolPacked(x) ==
    IF x.rk # "Bool" THEN EncErr
    ELSE IF x.b THEN EncOk(<<1>>) ELSE EncOk(<<0>>)

\* []byte(s): the characters' codes
Alphabet ==
    <<"0", "1", "2", "3", "4", "5", "6", "7", "8", "9",
      "a", "b", "c", "d", "e", "f", "x", "z", "-", "+">>

Codes ==
    <<48, 49, 50, 51, 52, 53, 54, 55, 56, 57,
      97, 98, 99, 100, 101, 102, 120, 122, 45, 43>>

CharCode(c) == Codes[CHOOSE i \in 1..Len(Alphabet) : Alphabet[i] = c]

encodeStringPacked(x) ==
    IF x.rk # "String" THEN EncErr
    ELSE EncOk([i \in 1..Len(x.str) |-> CharCode(x.str[i])])

\* v.Bytes(): it panics unless the value is a slice of bytes
ReflectBytes(x) == IF x.rk = "Slice" /\ IsByteSeq(x) THEN EncOk(x.bytes) ELSE EncPanic

\* encodeFixedBytesPacked padding as the integers are padded: zeros first
encodeFixedBytesPacked_padsLeft(x, ty) ==
    IF x.rk = "Array" /\ ~IsByteSeq(x) THEN EncPanic
    ELSE LET x1 == IF x.rk = "Array" THEN convertArrayToBytes(x) ELSE x
         IN  IF x1.rk = "String"
             THEN (IF ~decodeHex(x1.str).ok THEN EncErr
                   ELSE EncOk(leftPad(decodeHex(x1.str).bytes, Size(ty))))
             ELSE IF ReflectBytes(x1).st # "ok" THEN ReflectBytes(x1)
             ELSE EncOk(leftPad(ReflectBytes(x1).bytes, Size(ty)))

encodeFixedBytesPacked(x, ty) ==
    IF x.rk = "Array" /\ ~IsByteSeq(x) THEN EncPanic   \* reflect.Copy of other elements
    ELSE LET x1 == IF x.rk = "Array" THEN convertArrayToBytes(x) ELSE x
         IN  IF x1.rk = "String"
             THEN (IF ~decodeHex(x1.str).ok THEN EncErr
                   ELSE EncOk(rightPad(decodeHex(x1.str).bytes, Size(ty))))
             ELSE IF ReflectBytes(x1).st # "ok" THEN ReflectBytes(x1)
             ELSE EncOk(rightPad(ReflectBytes(x1).bytes, Size(ty)))

encodeAddressPacked(x) ==
    IF x.rk = "Array" /\ ~IsByteSeq(x) THEN EncPanic
    ELSE LET x1 == IF x.rk = "Array" THEN convertArrayToBytes(x) ELSE x
         IN  IF x1.rk = "String"
             THEN (IF ~UnmarshalText(x1.str).ok THEN EncErr
                   ELSE EncOk(UnmarshalText(x1.str).bytes))
             ELSE ReflectBytes(x1)

encodeBytesPacked(x) ==
    IF x.rk = "Array" /\ ~IsByteSeq(x) THEN EncPanic
    ELSE LET x1 == IF x.rk = "Array" THEN convertArrayToBytes(x) ELSE x
         IN  IF x1.rk = "String"
             THEN (IF ~decodeHex(x1.str).ok THEN EncErr
                   ELSE EncOk(decodeHex(x1.str).bytes))
             ELSE ReflectBytes(x1)

RECURSIVE encodePacked(_, _)
RECURSIVE encodeSliceAndArrayPacked(_, _)
RECURSIVE encodeTuplePacked(_, _)

encodeSliceAndArrayPacked(x, ty) ==
    IF x.rk # "Array" /\ x.rk # "Slice" THEN EncErr
    ELSE IF x.rk = "Array" /\ Kind(ty) # "Array" THEN EncErr
    ELSE IF x.rk = "Slice" /\ Kind(ty) # "Slice" THEN EncErr
    ELSE IF Kind(ty) = "Array" /\ Size(ty) # ValLen(x) THEN EncErr
    ELSE ConcatAll([i \in 1..ValLen(x) |-> encodePacked(ValIndex(x, i), Elem(ty))])

\* TupleField without the index standing in for an empty name
TupleField_nameOnly(x, isList, elems, i) ==
    IF isList THEN [found |-> TRUE, val |-> ValIndex(x, i)]
    ELSE IF elems[i].Name \in DOMAIN x.m
         THEN [found |-> TRUE, val |-> x.m[elems[i].Name]]
         ELSE [found |-> FALSE, val |-> VBool(FALSE)]

\* the value of field i (from 1) of the descriptor: positional, or by key
TupleField(x, isList, elems, i) ==
    IF isList THEN [found |-> TRUE, val |-> ValIndex(x, i)]
    ELSE LET name == IF elems[i].Name = "" THEN Itoa(i - 1) ELSE elems[i].Name
         IN  IF name \in DOMAIN x.m THEN [found |-> TRUE, val |-> x.m[name]]
             ELSE [found |-> FALSE, val |-> VBool(FALSE)]

encodeTuplePacked(x0, ty) ==
    LET x1 == IF x0.rk = "Ptr" /\ ~x0.isBig THEN x0.to ELSE x0
        shaped == x1.rk \in {"Slice", "Array", "Map", "Struct"}
        isList == x1.rk \in {"Slice", "Array"}
        x == IF x1.rk = "Struct" THEN mapFromStruct(x1) ELSE x1
        elems == TupleElems(ty)
    IN  IF ~shaped THEN EncErr
        ELSE IF ValLen(x) < Len(elems) THEN EncErr
        ELSE ConcatAll([i \in 1..Len(elems) |->
                 IF ~TupleField(x, isList, elems, i).found THEN EncErr
                 ELSE encodePacked(TupleField(x, isList, elems, i).val, elems[i].Elem)])

encodePacked(x, ty) ==
    CASE Kind(ty) \in {"Slice", "Array"} -> encodeSliceAndArrayPacked(x, ty)
      [] Kind(ty) = "Tuple" -> encodeTuplePacked(x, ty)
      [] Kind(ty) = "String" -> encodeStringPacked(x)
      [] Kind(ty) = "Bool" -> encodeBoolPacked(x)
      [] Kind(ty) = "Address" -> encodeAddressPacked(x)
      [] Kind(ty) \in {"Int", "UInt"} -> encodeNumPacked(x, ty)
      [] Kind(ty) = "Bytes" -> encodeBytesPacked(x)
      [] Kind(ty) \in {"FixedBytes", "Function"} -> encodeFixedBytesPacked(x, ty)
      [] OTHER -> EncErr

EncodePacked(x, ty) == encodePacked(x, ty)

(***************************************************************************)
(* Decoder (src/unnamed/part_000)                                          *)
(***************************************************************************)

Nil == [nil |-> TRUE]

DNum(n) == [num |-> n]

DBool(b) == [b |-> b]

DStr(bs) == [str |-> bs]

DBytes(bs) == [bytes |-> bs]

DList(xs) == [elems |-> xs]

DTuple(m) == [m |-> m]

DecOk(val, rest) == [st |-> "ok", val |-> val, rest |-> rest]

\* return nil, nil, err
DecErr == [st |-> "err", val |-> Nil, rest |-> <<>>]

\* a runtime fault: integer division by zero, index out of range
DecPanic == [st |-> "panic", val |-> Nil, rest |-> <<>>]

\* input[:n] and input[n:]
Take(bs, n) == SubSeq(bs, 1, n)

Drop(bs, n) == SubSeq(bs, n + 1, Len(bs))

readAddrPacked(b) ==
    IF Len(b) # 20 THEN [ok |-> FALSE, val |-> DBytes(Zeros(20))]
    ELSE [ok |-> TRUE, val |-> DBytes(Take(b, 20))]

readIntegerPacked(ty, b) ==
    LET u == BigSetBytes(b)
    IN  CASE GoTypeKind(ty) = "Uint" -> u
          [] GoTypeKind(ty) = "Int" ->
                \* int8(b[0]), int16(...), ...: the same bits read as signed
                IF b[1] >= 128 THEN BigSub(u, BigLsh1(8 * Len(b))) ELSE u
          [] OTHER ->
                IF Kind(ty) = "UInt" THEN u
                ELSE IF BigCmp(u, maxInt256) > 0
                THEN BigNeg(BigAdd(BigAdd(maxUint256, BigNeg(u)), BigOne))
                ELSE u

readFunctionTypePacked(ty, word) == DBytes(Take(word, 24))

readFixedBytesPacked(ty, word) == DBytes(Take(word, Size(ty)))

decodeBoolPacked(data) ==
    CASE data[1] = 0 -> [ok |-> TRUE, val |-> DBool(FALSE)]
      [] data[1] = 1 -> [ok |-> TRUE, val |-> DBool(TRUE)]
      [] OTHER -> [ok |-> FALSE, val |-> DBool(FALSE)]

\* val, input[length:], err of the scalar kinds
Scalar(r, rest) == [st |-> IF r.ok THEN "ok" ELSE "err", val |-> r.val, rest |-> rest]

RECURSIVE decodePacked(_, _)
RECURSIVE decodeTupleLoop(_, _, _, _)
RECURSIVE decodeArrayLoop(_, _, _, _)

\* the map res of decodeTuplePacked, kept as its <<name, value>> entries
MapOf(entries) ==
    [k \in {entries[i][1] : i \in 1..Len(entries)} |->
        entries[CHOOSE i \in 1..Len(entries) : entries[i][1] = k][2]]

\* the loop of decodeTuplePacked from field indx (from 1) on
decodeTupleLoop(elems, indx, data, res) ==
    IF indx > Len(elems) THEN DecOk(DTuple(MapOf(res)), data)
    ELSE LET r == decodePacked(elems[indx].Elem, data)
             name == IF elems[indx].Name = "" THEN Itoa(indx - 1) ELSE elems[indx].Name
         IN  IF r.st = "panic" THEN DecPanic
             ELSE IF r.st # "ok" THEN DecErr
             ELSE IF \E i \in 1..Len(res) : res[i][1] = name THEN DecErr
             ELSE decodeTupleLoop(elems, indx + 1, r.rest, Append(res, <<name, r.val>>))

decodeTuplePacked(ty, data) == decodeTupleLoop(TupleElems(ty), 1, data, <<>>)

\* decodeArrayLoop reading every element from the same place: data = tail left out
RECURSIVE decodeArrayLoop_sameData(_, _, _, _)
decodeArrayLoop_sameData(ty, data, n, acc) ==
    IF n = 0 THEN DecOk(DList(acc), data)
    ELSE LET r == decodePacked(Elem(ty), data)
         IN  IF r.st = "panic" THEN DecPanic
             ELSE IF r.st # "ok" THEN DecErr
             ELSE decodeArrayLoop_sameData(ty, data, n - 1, Append(acc, r.val))

\* the loop of decodeArraySlicePacked with n elements left to decode
decodeArrayLoop(ty, data, n, acc) ==
    IF n = 0 THEN DecOk(DList(acc), data)
    ELSE LET r == decodePacked(Elem(ty), data)
         IN  IF r.st = "panic" THEN DecPanic
             ELSE IF r.st # "ok" THEN DecErr
             ELSE decodeArrayLoop(ty, r.rest, n - 1, Append(acc, r.val))

decodeArraySlicePacked(ty, data, size) ==
    IF size < 0 THEN DecErr
    ELSE IF (Size(Elem(ty)) \div 8) * size > Len(data) THEN DecErr
    ELSE decodeArrayLoop(ty, data, size, <<>>)

\* eSize of the KindSlice case
SliceElemSize(ty, length) ==
    LET e0 == Size(Elem(ty))
        e1 == IF e0 = 0 THEN length ELSE e0
    IN  IF Kind(Elem(ty)) \in {"Int", "UInt"} THEN e1 \div 8 ELSE e1

PrefixLength(ty, in) ==
    CASE Kind(ty) \in {"Slice", "Bytes", "String"} -> Len(in)
      [] Kind(ty) = "Bool" -> 1
      [] Kind(ty) \in {"Int", "UInt"} -> Size(ty) \div 8
      [] OTHER -> Size(ty)

decodePacked(ty, in) ==
    LET length == PrefixLength(ty, in)
    IN  IF length > Len(in) THEN DecErr
        ELSE CASE Kind(ty) = "Tuple" -> decodeTuplePacked(ty, in)
               [] Kind(ty) = "Slice" ->
                     IF SliceElemSize(ty, length) = 0 THEN DecPanic   \* length/eSize
                     ELSE decodeArraySlicePacked(ty, in,
                              length \div SliceElemSize(ty, length))
               [] Kind(ty) = "Array" -> decodeArraySlicePacked(ty, in, Size(ty))
               [] Kind(ty) = "Bool" ->
                     Scalar(decodeBoolPacked(Take(in, length)), Drop(in, length))
               [] Kind(ty) \in {"Int", "UInt"} ->
                     DecOk(DNum(readIntegerPacked(ty, Take(in, length))),
                           Drop(in, length))
               [] Kind(ty) = "String" -> DecOk(DStr(in), Drop(in, length))
               [] Kind(ty) = "Bytes" -> DecOk(DBytes(in), Drop(in, length))
               [] Kind(ty) = "Address" ->
                     Scalar(readAddrPacked(Take(in, length)), Drop(in, length))
               [] Kind(ty) = "FixedBytes" ->
                     DecOk(readFixedBytesPacked(ty, Take(in, length)), Drop(in, length))
               [] Kind(ty) = "Function" ->
                     DecOk(readFunctionTypePacked(ty, Take(in, length)),
                           Drop(in, length))
               [] OTHER -> DecErr

\* val, err of the entry point; the remainder is dropped
DecodePacked(ty, in) ==
    IF Len(in) = 0 THEN [st |-> "err", val |-> Nil]
    ELSE [st |-> decodePacked(ty, in).st, val |-> decodePacked(ty, in).val]

(***************************************************************************)
(* Inputs                                                                  *)
(***************************************************************************)

\* longest buffer and longest byte sequence enumerated in full
MaxBufLen == 5

MaxBytesLen == 3

\* largest declared length of the short FixedBytes descriptors
MaxFixedLen == 4

\* bytes at the edges of the sign bit and of the boolean range
ByteVals == {0, 1, 127, 128, 255}

SmallBytes == {0, 1, 255}

\* hi, then fill, then lo: n bytes
Pat(hi, fill, lo, n) ==
    [i \in 1..n |-> IF i = 1 THEN hi ELSE IF i = n THEN lo ELSE fill]

PatSeqs(n) == {Pat(hi, fill, lo, n) : hi \in ByteVals, fill \in {0, 255}, lo \in {0, 1, 255}}

LongSeqs(n) == {Pat(hi, fill, lo, n) : hi \in {1, 128}, fill \in {0, 255}, lo \in {0, 1}}

SeqsUpTo(S, n) == UNION {[1..k -> S] : k \in 0..n}

IntWidths == {8, 16, 24, 32, 64, 128, 256}

IntTypes == {TInt(w) : w \in IntWidths} \cup {TUInt(w) : w \in IntWidths}

\* magnitudes of one to 33 bytes
Mags == UNION {{StripZeros(m) : m \in PatSeqs(n)} : n \in {1, 2, 3, 8, 32, 33}}

InInt64(neg, m) ==
    \/ Len(m) < 8
    \/ Len(m) = 8 /\ m[1] < 128
    \/ Len(m) = 8 /\ neg /\ m = <<128>> \o Zeros(7)

NumTexts ==
    { <<"7">>, <<"2", "5", "5">>, <<"2", "5", "6">>, <<"-", "1">>,
      <<"-", "1", "2", "9">>, <<"6", "5", "5", "3", "6">>,
      <<"0", "x", "1", "0">>, <<"0", "x", "f", "f">>, <<"0", "x", "8", "0", "0", "0">>,
      <<"f", "f">>, <<"z", "z">>, <<"0", "x">>, <<"1", "2", "z">>,
      <<"a">>, <<>>, <<"z", "z", "1", "0">> }

NumValues ==
       {VUint(m) : m \in {m \in Mags : Len(m) <= 8}}
  \cup {VInt(sm[1], sm[2]) :
           sm \in {sm \in BOOLEAN \X Mags : Len(sm[2]) <= 8 /\ InInt64(sm[1], sm[2])}}
  \cup {VBigInt(s, m) : s \in BOOLEAN, m \in Mags}
  \cup {VFloat(s, m, f) : s \in BOOLEAN, f \in BOOLEAN, m \in {m \in Mags : Len(m) <= 2}}
  \cup {VString(s) : s \in NumTexts}

\* hex text of a byte sequence, with or without 0x
HexText(b, prefix) ==
    (IF prefix THEN <<"0", "x">> ELSE <<>>) \o
    [i \in 1..(2 * Len(b)) |->
        IF i % 2 = 1 THEN HexDigits[(b[(i + 1) \div 2] \div 16) + 1]
        ELSE HexDigits[(b[i \div 2] % 16) + 1]]

ShortByteSeqs == SeqsUpTo(SmallBytes, MaxBytesLen)

ByteSeqs == ShortByteSeqs \cup LongSeqs(20) \cup LongSeqs(24)

\* one byte sequence in the shapes the byte kinds accept
ByteShapes(b) ==
    {VBytes(b), VByteArray(b), VString(HexText(b, TRUE)), VString(HexText(b, FALSE))}

ByteValues == UNION {ByteShapes(b) : b \in ByteSeqs}

FixedTypes == {TFixedBytes(n) : n \in 1..MaxFixedLen} \cup {TFunction}

ByteTypes == FixedTypes \cup {TAddress, TBytes, TFixedBytes(32)}

\* tuple descriptors: named, positional, mixed, repeated, nested, empty
TupAB == TTuple(<<TupleElem("a", TUInt(8)), TupleElem("b", TBool)>>)

TupPos == TTuple(<<TupleElem("", TUInt(8)), TupleElem("", TUInt(16))>>)

TupMixed == TTuple(<<TupleElem("a", TUInt(8)), TupleElem("", TBool)>>)

TupAA == TTuple(<<TupleElem("a", TUInt(8)), TupleElem("a", TUInt(8))>>)

TupClash == TTuple(<<TupleElem("", TUInt(8)), TupleElem("0", TUInt(8))>>)

TupOne == TTuple(<<TupleElem("b", TBool)>>)

TupEmpty == TTuple(<<>>)

TupNested == TTuple(<<TupleElem("a", TupAB), TupleElem("b", TInt(24))>>)

TupArr == TTuple(<<TupleElem("a", TArray(TUInt(8), 2)), TupleElem("b", TBool)>>)

FlatTuples == {TupAB, TupPos, TupMixed, TupAA, TupClash, TupOne, TupEmpty}

\* keyed collections over a few keys
KeyNames == {"a", "b", "0", "1", "c"}

FieldValues == {VUint(<<7>>), VBool(TRUE), VInt(TRUE, <<1>>)}

Maps == UNION {[ks -> FieldValues] : ks \in SUBSET KeyNames}

Lists == SeqsUpTo(FieldValues, 3)

TupleValues ==
    {VMap(m) : m \in Maps} \cup {VSlice(xs) : xs \in Lists}
    \cup {VStruct(m) : m \in {m \in Maps : DOMAIN m \subseteq {"a", "b"}}}

\* sequences for Array and Slice descriptors
SeqTypes ==
    {TArray(e, n) : e \in {TUInt(8), TInt(24), TBool, TFixedBytes(2)}, n \in 0..2}
    \cup {TSlice(e) : e \in {TUInt(8), TInt(24), TBool, TFixedBytes(2)}}
    \cup {TArray(TupAB, 1)}

SeqElems ==
    {VUint(<<7>>), VInt(TRUE, <<1>>), VBool(TRUE), VBytes(<<1>>), VBytes(<<1, 255>>),
     VMap([k \in {"a", "b"} |-> IF k = "a" THEN VUint(<<7>>) ELSE VBool(FALSE)])}

SeqValues ==
    {VSlice(xs) : xs \in SeqsUpTo(SeqElems, 2)} \cup {VArray(xs) : xs \in SeqsUpTo(SeqElems, 2)}
    \cup {VBytes(b) : b \in SeqsUpTo(SmallBytes, 2)}
    \cup {VByteArray(b) : b \in SeqsUpTo(SmallBytes, 2)}

\* one descriptor of every kind, and one value of every shape
AllKinds ==
    {TBool, TString, TBytes, TAddress, TFunction, TFixedBytes(2), TInt(8), TUInt(16),
     TInt(24), TArray(TUInt(8), 2), TSlice(TUInt(8)), TupAB, TUnsupported}

ShapeValues ==
    {VUint(<<7>>), VInt(TRUE, <<1>>), VInt(FALSE, <<1, 0>>), VFloat(FALSE, <<1>>, TRUE),
     VBigInt(FALSE, <<1>>), VPtr(VBool(TRUE)), VBool(TRUE), VBool(FALSE),
     VString(<<>>), VString(<<"a">>), VString(<<"7">>), VString(<<"z", "z">>),
     VString(<<"0", "x", "0", "1">>), VString(<<"0", "x", "1">>),
     VString(<<"0", "x", "z", "z">>), VString(<<"0", "1", "f", "f">>),
     VBytes(<<>>), VBytes(<<1, 255>>), VByteArray(<<1, 255>>),
     VSlice(<<>>), VSlice(<<VUint(<<7>>), VUint(<<1>>)>>), VSlice(<<VBool(TRUE)>>),
     VArray(<<VUint(<<7>>), VUint(<<1>>)>>), VArray(<<VBool(TRUE), VBool(FALSE)>>),
     VMap([k \in {"a", "b"} |-> IF k = "a" THEN VUint(<<7>>) ELSE VBool(FALSE)]),
     VMap([k \in {"a"} |-> VUint(<<7>>)]),
     VStruct([k \in {"a", "b"} |-> IF k = "a" THEN VUint(<<7>>) ELSE VBool(FALSE)])}
    \cup {VBytes(b) : b \in LongSeqs(20)} \cup {VString(HexText(b, TRUE)) : b \in LongSeqs(20)}

\* descriptors decoded against every short buffer
SmallElems == {TBool, TUInt(8), TUInt(16), TInt(24), TFixedBytes(2)}

DecTypes ==
    SmallElems \cup {TInt(8), TFixedBytes(1), TString, TBytes, TUnsupported}
    \cup {TArray(e, n) : e \in SmallElems, n \in 0..2}
    \cup {TArray(TArray(TUInt(8), 2), 2), TArray(TupEmpty, 2), TArray(TupAB, 2),
          TArray(TArray(TupEmpty, 1), 1)}
    \cup {TSlice(e) : e \in SmallElems}
    \cup {TSlice(TString), TSlice(TBytes), TSlice(TupAB), TSlice(TArray(TUInt(16), 2)),
          TSlice(TArray(TUInt(8), 2)), TSlice(TSlice(TUInt(8)))}
    \cup FlatTuples
    \cup {TupNested, TupArr,
          TTuple(<<TupleElem("a", TUInt(8)), TupleElem("b", TSlice(TBool))>>),
          TTuple(<<TupleElem("a", TUInt(8)), TupleElem("b", TSlice(TUInt(16)))>>),
          TTuple(<<TupleElem("a", TSlice(TUInt(8))), TupleElem("b", TUInt(8))>>),
          TTuple(<<TupleElem("a", TUInt(16)), TupleElem("b", TString)>>),
          TTuple(<<TupleElem("a", TUInt(16)), TupleElem("b", TBytes)>>),
          TArray(TSlice(TBool), 2)}

DecBufs == SeqsUpTo(SmallBytes, MaxBufLen)

\* descriptors with long prefixes, decoded against buffers around their lengths
LongTypes ==
    {TAddress, TFunction, TFixedBytes(32), TUInt(256), TInt(256), TInt(64),
     TSlice(TAddress), TArray(TAddress, 2), TSlice(TFunction), TSlice(TUInt(256)),
     TTuple(<<TupleElem("to", TAddress), TupleElem("ok", TBool)>>)}

LongBufs == UNION {LongSeqs(n) : n \in {19, 20, 21, 24, 25, 32, 33, 40, 41, 48, 64}}

(***************************************************************************)
(* The calls                                                               *)
(***************************************************************************)

NoEnc == [st |-> "none", bytes |-> <<>>]

NoDec == [st |-> "none", val |-> Nil, rest |-> <<>>]

NoTop == [st |-> "none", val |-> Nil]

Init ==
    /\ pc = "idle"
    /\ t = TBool
    /\ v = VBool(FALSE)
    /\ input = <<>>
    /\ enc = NoEnc
    /\ dec = NoDec
    /\ top = NoTop

\* EncodePacked(x, ty), called when no call was made yet
Encode(x, ty) ==
    /\ pc' = "encoded"
    /\ t' = ty
    /\ v' = x
    /\ enc' = EncodePacked(x, ty)
    /\ UNCHANGED <<input, dec, top>>

\* DecodePacked(ty, in), with the remainder decodePacked hands back
Decode(ty, in) ==
    /\ pc' = "decoded"
    /\ t' = ty
    /\ input' = in
    /\ dec' = decodePacked(ty, in)
    /\ top' = DecodePacked(ty, in)
    /\ UNCHANGED <<v, enc>>

\* DecodePacked(t, EncodePacked(v, t))
RoundTrip ==
    /\ pc = "encoded"
    /\ enc.st = "ok"
    /\ pc' = "roundtrip"
    /\ input' = enc.bytes
    /\ dec' = decodePacked(t, enc.bytes)
    /\ top' = DecodePacked(t, enc.bytes)
    /\ UNCHANGED <<t, v, enc>>

EncodeNum == pc = "idle" /\ \E ty \in IntTypes, x \in NumValues : Encode(x, ty)

EncodeBytes == pc = "idle" /\ \E ty \in ByteTypes, x \in ByteValues : Encode(x, ty)

EncodeTuple == pc = "idle" /\ \E ty \in FlatTuples, x \in TupleValues : Encode(x, ty)

EncodeSeq == pc = "idle" /\ \E ty \in SeqTypes, x \in SeqValues : Encode(x, ty)

EncodeShape == pc = "idle" /\ \E ty \in AllKinds, x \in ShapeValues : Encode(x, ty)

DecodeNum == pc = "idle" /\ \E ty \in IntTypes : \E in \in PatSeqs(Size(ty) \div 8) : Decode(ty, in)

DecodeShort == pc = "idle" /\ \E ty \in DecTypes, in \in DecBufs : Decode(ty, in)

DecodeLong == pc = "idle" /\ \E ty \in LongTypes, in \in LongBufs : Decode(ty, in)

\* integers: encoding, decoding and the way back
NextNum == EncodeNum \/ DecodeNum \/ RoundTrip

SpecNum == Init /\ [][NextNum]_vars

\* every encoder, and the way back through the decoder
NextEncode == EncodeBytes \/ EncodeTuple \/ EncodeSeq \/ EncodeShape \/ RoundTrip

SpecEncode == Init /\ [][NextEncode]_vars

\* the decoder on buffers of every length
NextDecode == DecodeShort \/ DecodeLong

SpecDecode == Init /\ [][NextDecode]_vars

Next == NextNum \/ NextEncode \/ NextDecode

Spec == Init /\ [][Next]_vars

(***************************************************************************)
(* What the claims speak of                                                *)
(***************************************************************************)

\* x is a multiple of 2^w (w a multiple of 8): its low w/8 bytes are zero
MultipleOf2W(x, w) == \A k \in 1..(w \div 8) : Digit(x.mag, k) = 0

\* 0 <= x < 2^w, or -2^(w-1) <= x < 2^(w-1) for a signed type
InRange(x, w, signed) ==
    IF signed
    THEN BigCmp(x, BigNeg(BigLsh1(w - 1))) >= 0 /\ BigCmp(x, BigLsh1(w - 1)) < 0
    ELSE BigSign(x) >= 0 /\ BigCmp(x, BigLsh1(w)) < 0

\* text that writes a number: decimal, or hex after 0x
TextIsNumber(s) ==
    \/ SetString(s, 10).ok
    \/ Len(s) > 2 /\ s[1] = "0" /\ s[2] = "x" /\ SetString(SubSeq(s, 3, Len(s)), 16).ok

TextNumber(s) ==
    IF SetString(s, 10).ok THEN SetString(s, 10).num
    ELSE SetString(SubSeq(s, 3, Len(s)), 16).num

\* the input shapes the integer kinds accept
IsNumInput(x) ==
    \/ x.rk \in {"Uint", "Int", "Float64"}
    \/ x.rk = "Ptr" /\ x.isBig
    \/ x.rk = "String" /\ TextIsNumber(x.str)

\* the integer an accepted input stands for (a float: truncated toward zero)
NumOf(x) == IF x.rk = "String" THEN TextNumber(x.str) ELSE x.num

\* C2: encoding an integer n against Int/UInt of width W gives exactly W/8 bytes,
\* the big-endian form of n mod 2^W, whatever accepted shape n comes in
C2_EncodeIntWidth ==
    (pc = "encoded" /\ Kind(t) \in {"Int", "UInt"} /\ IsNumInput(v)) =>
        /\ enc.st = "ok"
        /\ Len(enc.bytes) = Size(t) \div 8
        /\ MultipleOf2W(BigSub(BigSetBytes(enc.bytes), NumOf(v)), Size(t))

\* C3: decoding W/8 bytes of unsigned magnitude u gives u for UInt, and for Int
\* gives u - 2^W when u exceeds 2^(W-1) - 1, else u, at every width
C3_DecodeTwosComplement ==
    (pc = "decoded" /\ Kind(t) \in {"Int", "UInt"} /\ Len(input) = Size(t) \div 8) =>
        /\ dec.st = "ok"
        /\ dec.val = DNum(
             IF Kind(t) = "Int"
                /\ BigCmp(BigSetBytes(input), BigSub(BigLsh1(Size(t) - 1), BigOne)) > 0
             THEN BigSub(BigSetBytes(input), BigLsh1(Size(t)))
             ELSE BigSetBytes(input))

\* a type built only from fixed-size kinds
RECURSIVE IsFixed(_)
IsFixed(ty) ==
    CASE Kind(ty) \in {"Bool", "Int", "UInt", "Address", "FixedBytes", "Function"} -> TRUE
      [] Kind(ty) = "Array" -> IsFixed(Elem(ty))
      [] Kind(ty) = "Tuple" -> \A i \in 1..Len(TupleElems(ty)) : IsFixed(TupleElems(ty)[i].Elem)
      [] OTHER -> FALSE

\* the byte length a fixed-size type requires
RECURSIVE FixedLen(_)
FixedLen(ty) ==
    CASE Kind(ty) = "Bool" -> 1
      [] Kind(ty) \in {"Int", "UInt"} -> Size(ty) \div 8
      [] Kind(ty) = "Address" -> 20
      [] Kind(ty) = "Function" -> 24
      [] Kind(ty) = "FixedBytes" -> Size(ty)
      [] Kind(ty) = "Array" -> Size(ty) * FixedLen(Elem(ty))
      [] Kind(ty) = "Tuple" ->
            IF TupleElems(ty) = <<>> THEN 0
            ELSE FixedLen(TupleElems(ty)[1].Elem)
                 + FixedLen(TTuple(Tail(TupleElems(ty))))
      [] OTHER -> 0

\* the input is a byte sequence: bytes, a byte array, or hex text of one
IsByteInput(x) ==
    \/ x.rk \in {"Slice", "Array"} /\ IsByteSeq(x)
    \/ x.rk = "String" /\ \E b \in ByteSeqs, p \in BOOLEAN : x.str = HexText(b, p)

InputBytes(x) ==
    IF x.rk = "String"
    THEN CHOOSE b \in ByteSeqs : \E p \in BOOLEAN : x.str = HexText(b, p)
    ELSE x.bytes

\* the value has the shape and the sizes its fixed-size type declares
RECURSIVE Sized(_, _)
Sized(x, ty) ==
    CASE Kind(ty) = "Bool" -> x.rk = "Bool"
      [] Kind(ty) \in {"Int", "UInt"} -> IsNumInput(x)
      [] Kind(ty) = "Address" -> IsByteInput(x) /\ Len(InputBytes(x)) = 20
      [] Kind(ty) \in {"FixedBytes", "Function"} ->
            IsByteInput(x) /\ Len(InputBytes(x)) <= FixedLen(ty)
      [] Kind(ty) = "Array" ->
            /\ x.rk \in {"Slice", "Array"}
            /\ ValLen(x) = Size(ty)
            /\ \A i \in 1..Size(ty) : Sized(ValIndex(x, i), Elem(ty))
      [] Kind(ty) = "Tuple" ->
            /\ x.rk \in {"Slice", "Array", "Map", "Struct"}
            /\ \A i \in 1..Len(TupleElems(ty)) :
                 LET f == TupleField(x, x.rk \in {"Slice", "Array"}, TupleElems(ty), i)
                 IN  f.found /\ Sized(f.val, TupleElems(ty)[i].Elem)
      [] OTHER -> FALSE

\* d is x brought to the canonical width and sign of ty
RECURSIVE Canonical(_, _, _)
Canonical(d, x, ty) ==
    CASE Kind(ty) = "Bool" -> d = DBool(x.b)
      [] Kind(ty) \in {"Int", "UInt"} ->
            /\ DOMAIN d = {"num"}
            /\ InRange(d.num, Size(ty), Kind(ty) = "Int")
            /\ MultipleOf2W(BigSub(d.num, NumOf(x)), Size(ty))
      [] Kind(ty) = "Address" -> d = DBytes(InputBytes(x))
      [] Kind(ty) \in {"FixedBytes", "Function"} ->
            d = DBytes(InputBytes(x) \o Zeros(FixedLen(ty) - Len(InputBytes(x))))
      [] Kind(ty) = "Array" ->
            /\ DOMAIN d = {"elems"}
            /\ Len(d.elems) = Size(ty)
            /\ \A i \in 1..Size(ty) : Canonical(d.elems[i], ValIndex(x, i), Elem(ty))
      [] Kind(ty) = "Tuple" ->
            /\ DOMAIN d = {"m"}
            /\ \A i \in 1..Len(TupleElems(ty)) :
                 LET e == TupleElems(ty)[i]
                     name == IF e.Name = "" THEN Itoa(i - 1) ELSE e.Name
                     f == TupleField(x, x.rk \in {"Slice", "Array"}, TupleElems(ty), i)
                 IN  name \in DOMAIN d.m /\ Canonical(d.m[name], f.val, e.Elem)
      [] OTHER -> FALSE

\* the name field i (from 1) of a tuple is decoded under
FieldName(elems, i) == IF elems[i].Name = "" THEN Itoa(i - 1) ELSE elems[i].Name

\* no two fields of a tuple of the type are decoded under the same name
RECURSIVE NamesDistinct(_)
NamesDistinct(ty) ==
    CASE Kind(ty) \in {"Array", "Slice"} -> NamesDistinct(Elem(ty))
      [] Kind(ty) = "Tuple" ->
            LET es == TupleElems(ty)
            IN  /\ \A i, j \in 1..Len(es) : FieldName(es, i) = FieldName(es, j) => i = j
                /\ \A i \in 1..Len(es) : NamesDistinct(es[i].Elem)
      [] OTHER -> TRUE

\* C1: for a type of fixed-size kinds only and a value EncodePacked accepts,
\* DecodePacked(T, EncodePacked(v, T)) succeeds and returns v at T's canonical
\* width and sign
C1_RoundTrip ==
    (pc = "roundtrip" /\ IsFixed(t) /\ NamesDistinct(t) /\ Sized(v, t)
        /\ enc.bytes # <<>>) =>
        /\ top.st = "ok"
        /\ Canonical(top.val, v, t)

\* every byte a Bool of the type is read from is 0 or 1, b holding the type
RECURSIVE BoolsOk(_, _)
BoolsOk(ty, b) ==
    CASE Kind(ty) = "Bool" -> b[1] \in {0, 1}
      [] Kind(ty) = "Array" ->
            \A i \in 1..Size(ty) :
                BoolsOk(Elem(ty), SubSeq(b, (i - 1) * FixedLen(Elem(ty)) + 1,
                                         i * FixedLen(Elem(ty))))
      [] Kind(ty) = "Tuple" ->
            \/ TupleElems(ty) = <<>>
            \/ /\ BoolsOk(TupleElems(ty)[1].Elem, b)
               /\ BoolsOk(TTuple(Tail(TupleElems(ty))),
                          Drop(b, FixedLen(TupleElems(ty)[1].Elem)))
      [] OTHER -> TRUE

\* every array of the type has elements of at least one byte
RECURSIVE ArraysFit(_)
ArraysFit(ty) ==
    CASE Kind(ty) = "Array" -> FixedLen(Elem(ty)) > 0 /\ ArraysFit(Elem(ty))
      [] Kind(ty) = "Tuple" ->
            \A i \in 1..Len(TupleElems(ty)) : ArraysFit(TupleElems(ty)[i].Elem)
      [] OTHER -> TRUE

\* bytes before field i (from 1) of a tuple
RECURSIVE Offset(_, _)
Offset(es, i) == IF i = 1 THEN 0 ELSE Offset(es, i - 1) + FixedLen(es[i - 1].Elem)

\* the value laid out in b: each element and each field read at its own place
RECURSIVE Layout(_, _)
Layout(ty, b) ==
    CASE Kind(ty) = "Array" ->
            DList([i \in 1..Size(ty) |->
                Layout(Elem(ty), SubSeq(b, (i - 1) * FixedLen(Elem(ty)) + 1,
                                        i * FixedLen(Elem(ty))))])
      [] Kind(ty) = "Tuple" ->
            LET es == TupleElems(ty)
            IN  DTuple([k \in {FieldName(es, i) : i \in 1..Len(es)} |->
                    LET i == CHOOSE j \in 1..Len(es) : FieldName(es, j) = k
                    IN  Layout(es[i].Elem,
                               SubSeq(b, Offset(es, i) + 1,
                                      Offset(es, i) + FixedLen(es[i].Elem)))])
      [] OTHER -> decodePacked(ty, b).val

C4_SliceDivisible ==
    (pc = "decoded" /\ Kind(t) = "Slice" /\ IsFixed(Elem(t)) /\ NamesDistinct(t)
        /\ ArraysFit(t) /\ FixedLen(Elem(t)) > 0 /\ input # <<>>) =>
        LET s == FixedLen(Elem(t))
            n == Len(input)
        IN  IF n % s = 0
            THEN BoolsOk(TArray(Elem(t), n \div s), input) =>
                    /\ dec.st = "ok"
                    /\ Len(dec.val.elems) = n \div s
            ELSE dec.st = "err"

\* C9: a successful decode of String, Bytes or Slice leaves no remainder and
\* the value holds the whole input
C9_DynamicConsumesAll ==
    (pc = "decoded" /\ Kind(t) \in {"String", "Bytes", "Slice"} /\ dec.st = "ok") =>
        /\ dec.rest = <<>>
        /\ Kind(t) = "String" => dec.val = DStr(input)
        /\ Kind(t) = "Bytes" => dec.val = DBytes(input)

\* C10: decoding ends with a value or an error for every descriptor and
\* buffer; it never ends in a runtime fault
C10_DecodeTotal == pc = "decoded" => top.st \in {"ok", "err"}

\* C5: a byte sequence b of at most L bytes encoded against FixedBytes of
\* length L (Function: L = 24) gives b followed by L - len(b) zero bytes, for
\* b as bytes, as a byte array and as hex text
C5_FixedBytesRightPad ==
    LET l == IF Kind(t) = "Function" THEN 24 ELSE Size(t)
    IN  (pc = "encoded" /\ Kind(t) \in {"FixedBytes", "Function"} /\ IsByteInput(v)
            /\ Len(InputBytes(v)) <= l) =>
            enc = EncOk(InputBytes(v) \o Zeros(l - Len(InputBytes(v))))

\* hex text of a short sequence ending in a non-zero byte, padded on the right
C5_Witness ==
    /\ pc = "encoded"
    /\ Kind(t) = "FixedBytes"
    /\ v.rk = "String"
    /\ IsByteInput(v)
    /\ InputBytes(v) = <<1, 255>>
    /\ Size(t) = 4
    /\ enc = EncOk(<<1, 255, 0, 0>>)

RECURSIVE JoinBytes(_)
JoinBytes(parts) ==
    IF parts = <<>> THEN <<>> ELSE Head(parts).bytes \o JoinBytes(Tail(parts))

\* C6: a Tuple encoded from a keyed collection is the fields' encodings in
\* descriptor order, each looked up by name or by its index as text when the name
\* is empty; a missing key or fewer entries than fields is an error, more
\* entries are not
C6_TupleKeyed ==
    (pc = "encoded" /\ Kind(t) = "Tuple" /\ v.rk = "Map") =>
        LET es == TupleElems(t)
            missing == \E i \in 1..Len(es) : FieldName(es, i) \notin DOMAIN v.m
            fewer == Cardinality(DOMAIN v.m) < Len(es)
            parts == [i \in 1..Len(es) |-> encodePacked(v.m[FieldName(es, i)], es[i].Elem)]
        IN  IF missing \/ fewer THEN enc.st = "err"
            ELSE IF \A i \in 1..Len(es) : parts[i].st = "ok"
                 THEN enc = EncOk(JoinBytes(parts))
                 ELSE enc.st # "ok"

\* positional keys, an extra key, and the fields in descriptor order
C6_Witness ==
    /\ pc = "encoded"
    /\ t = TupPos
    /\ v.rk = "Map"
    /\ DOMAIN v.m = {"0", "1", "c"}
    /\ v.m["0"] = VUint(<<7>>)
    /\ v.m["1"] = VInt(TRUE, <<1>>)
    /\ enc = EncOk(<<7, 255, 255>>)

\* the value's shape does not fit the declared kind
ShapeMismatch(x, ty) ==
    CASE Kind(ty) \in {"Address", "Bytes", "FixedBytes", "Function"} ->
            ~(\/ x.rk \in {"Slice", "Array"} /\ IsByteSeq(x)
              \/ x.rk = "String" /\ decodeHex(x.str).ok)
      [] Kind(ty) \in {"Int", "UInt"} -> ~IsNumInput(x)
      [] Kind(ty) \in {"Array", "Slice"} -> x.rk \notin {"Slice", "Array"}
      [] Kind(ty) = "Tuple" -> x.rk \notin {"Slice", "Array", "Map", "Struct"}
      [] Kind(ty) = "Bool" -> x.rk # "Bool"
      [] Kind(ty) = "String" -> x.rk # "String"
      [] OTHER -> TRUE

\* C8: whenever the value's shape does not match the declared kind,
\* EncodePacked returns an error and no bytes; it never crashes
C8_MismatchIsError ==
    (pc = "encoded" /\ ShapeMismatch(v, t)) => enc = EncErr

====
